---- MODULE Spec2Model ----
(***************************************************************************)
(* Model of pkg/modules/libreoffice/routes.go: the two multipart handlers  *)
(* convertRoute (documents -> PDF, optional merge, PDF format conversion,  *)
(* metadata, renaming) and convertRouteDocx (documents -> DOCX, renaming). *)
(*                                                                         *)
(* One behaviour is one request, from the point where the form data has    *)
(* been validated up to the handler's return.  Every step is one external  *)
(* call of the handler (libreOffice.Pdf, engine.Merge, engine.Convert,     *)
(* engine.WriteMetadata, ctx.Rename, ctx.AddOutputPaths, libreOffice.Docx) *)
(* together with the code around it; the outcome of the call is chosen by  *)
(* the environment.  calls is the history of the calls issued so far and   *)
(* files is the content of the request's working directory.                *)
(***************************************************************************)
EXTENDS Integers, Sequences, FiniteSets, TLC

\* Largest number of uploaded files in one request.
MaxInputs == 3

\* File names a request's documents are drawn from; MandatoryPaths yields
\* one path per uploaded file name, so the paths of one request are distinct.
Names == <<"a.docx", "b.xlsx", "c.odt", "d.hwp">>

VARIABLES
    pipeline,          \* "pdf" (convertRoute) or "docx" (convertRouteDocx)
    inputPaths,        \* form: the uploaded documents, in order
    passThrough,       \* form: landscape, exportFormFields, singlePageSheets
    nativePageRanges,  \* form: nativePageRanges
    pdfa,              \* form: pdfa
    pdfua,             \* form: pdfua
    nativePdfFormats,  \* form: nativePdfFormats
    merge,             \* form: merge
    metadata,          \* form: metadata, a set of <<key, value>> entries
    outputPaths,       \* the handler's outputPaths slice
    convertOutputPaths,\* the handler's convertOutputPaths slice
    i,                 \* index (1-based) of the running loop
    pc,                \* the statement the handler is at
    err,               \* the error the handler returned (NoError: nil)
    calls,             \* history: the external calls issued, in order
    files,             \* working directory: path -> content
    generated,         \* number of paths issued by ctx.GeneratePath
    sent               \* ctx's output paths, as the API will send them

vars == <<pipeline, inputPaths, passThrough, nativePageRanges, pdfa, pdfua,
          nativePdfFormats, merge, metadata, outputPaths, convertOutputPaths,
          i, pc, err, calls, files, generated, sent>>

form == <<pipeline, inputPaths, passThrough, nativePageRanges, pdfa, pdfua,
          nativePdfFormats, merge, metadata>>

----------------------------------------------------------------------------
\* Values

Range(s) == {s[k] : k \in DOMAIN s}

IsInjective(s) == \A a, b \in DOMAIN s : s[a] = s[b] => a = b

\* The lists of distinct names of length 1..MaxInputs.
InputLists ==
    UNION {{s \in [1..n -> Range(Names)] : IsInjective(s)} : n \in 1..MaxInputs}

PassThroughChoices ==
    {[Landscape |-> FALSE, ExportFormFields |-> TRUE, SinglePageSheets |-> FALSE],
     [Landscape |-> TRUE, ExportFormFields |-> FALSE, SinglePageSheets |-> TRUE]}

PageRangesChoices == {"", "1-x"}

PdfAChoices == {"", "PDF/A-1b"}

MetadataChoices == {{}, {<<"Author", "Jane">>}}

\* gotenberg.PdfFormats{PdfA: pdfa, PdfUa: pdfua}
pdfFormats == [PdfA |-> pdfa, PdfUa |-> pdfua]

\* gotenberg.PdfFormats{}
zeroValued == [PdfA |-> "", PdfUa |-> FALSE]

\* What libreOffice.Pdf may return.
PdfResults == {"nil", "ErrInvalidPdfFormats", "ErrMalformedPageRanges", "other"}

\* What libreOffice.Docx may return: the errors of the same Uno API.
DocxResults == PdfResults

\* What every other external call may return.
CallResults == {"nil", "other"}

\* Mutant: only the typed errors of libreOffice.Pdf are taken as failures.
HasFailedTyped(res) == res \in {"ErrInvalidPdfFormats", "ErrMalformedPageRanges"}

\* if err != nil
HasFailed(res) == res # "nil"

\* An error: the sentinel HTTP error it is wrapped with (status 0: none), its
\* text, and the parts the text is formatted from.
NoError == [status |-> 0, message |-> "", text |-> "", parts |-> <<>>]

\* Mutant: the cause is returned as it is.
PlainErrorBare(prefix, cause) ==
    [status |-> 0, message |-> "", text |-> cause, parts |-> <<cause>>]

\* fmt.Errorf(prefix + ": %w", cause), returned as is: no sentinel HTTP error.
PlainError(prefix, cause) ==
    [status |-> 0, message |-> "", text |-> prefix \o ": " \o cause,
     parts |-> <<prefix, cause>>]

\* api.WrapError(fmt.Errorf(prefix + ": %w", cause),
\*               api.NewSentinelHttpError(status, message))
WrapError(prefix, cause, status, message) ==
    [status |-> status, message |-> message, text |-> prefix \o ": " \o cause,
     parts |-> <<prefix, cause>>]

StatusBadRequest == 400

StatusInternalServerError == 500

\* fmt.Sprintf("%t", b)
BoolString(b) == IF b THEN "true" ELSE "false"

\* fmt.Sprintf("%+v", f) of a gotenberg.PdfFormats
PdfFormatsString(f) == "{PdfA:" \o f.PdfA \o " PdfUa:" \o BoolString(f.PdfUa) \o "}"

InvalidPdfFormatsMessage(f) ==
    "A PDF format in '" \o PdfFormatsString(f) \o "' is not supported"

MalformedPageRangesMessage(r) ==
    "Malformed page ranges '" \o r \o "' (nativePageRanges)"

\* ctx.GeneratePath(ext): a fresh path of the working directory.
GeneratePath(n, ext) == "out" \o ToString(n) \o ext

\* The content of a file: the documents it was rendered from, the number of
\* PDF format conversion passes its pages went through (a merged PDF has the
\* passes of the PDFs it was merged from), the metadata written to it.
Content(src, formats, meta) == [src |-> src, formats |-> formats, meta |-> meta]

Call(op, in, out, formats, res) ==
    [op |-> op, in |-> in, out |-> out, formats |-> formats, res |-> res]

----------------------------------------------------------------------------
\* The handler's conditions

\* Mutant: the merge flag is not looked at.
MergeCondAlways(out) == Len(out) > 1

\* Mutant: the number of output paths is not looked at.
MergeCondNoLen(out) == merge

MergeCond(out) == Len(out) > 1 /\ merge

\* Mutant: nativePdfFormats is not looked at.
ConvertCondAlways == pdfFormats # zeroValued

\* Mutant: the PDF formats are not compared with their zero value.
ConvertCondNoZero == ~nativePdfFormats

ConvertCond == ~nativePdfFormats /\ pdfFormats # zeroValued

\* Mutant: a single metadata entry is not written.
MetadataCondMoreThanOne == Cardinality(metadata) > 1

MetadataCond == Cardinality(metadata) > 0

\* Mutant: a single output path is renamed too.
RenameCondNonEmpty(out) == Len(out) > 0

RenameCond(out) == Len(out) > 1

\* The condition under which a stage of convertRoute runs.
StageCond(stage, out) ==
    CASE stage = "merge" -> MergeCond(out)
      [] stage = "convert" -> ConvertCond
      [] stage = "metadata" -> MetadataCond
      [] stage = "rename" -> RenameCond(out)
      [] OTHER -> TRUE

\* Mutant: the PDF format conversion comes before the merge.
StageOrderConvertFirst == <<"pdf", "convert", "merge", "metadata", "rename", "add">>

\* Mutant: the metadata are written before the PDF format conversion.
StageOrderMetadataFirst == <<"pdf", "merge", "metadata", "convert", "rename", "add">>

\* The stages of convertRoute, in the order of its statements.
StageOrder == <<"pdf", "merge", "convert", "metadata", "rename", "add">>

StageIndex(stage) == CHOOSE k \in DOMAIN StageOrder : StageOrder[k] = stage

\* The first stage from the k-th on whose condition holds.
RECURSIVE FirstFrom(_, _)
FirstFrom(k, out) ==
    IF k >= Len(StageOrder) \/ StageCond(StageOrder[k], out)
    THEN StageOrder[k]
    ELSE FirstFrom(k + 1, out)

\* The statement reached from the end of a stage, given the output paths.
Following(stage, out) == FirstFrom(StageIndex(stage) + 1, out)

\* for k, x := range list: whether an iteration follows the k-th.
MoreToDo(k, list) == k < Len(list)

\* Mutant: the suffix is put in front of the name.
OutputNamePrefixed(inputPath, suffix) == suffix \o inputPath

\* fmt.Sprintf("%s" + suffix, inputPath)
OutputName(inputPath, suffix) == inputPath \o suffix

----------------------------------------------------------------------------
Init ==
    /\ pipeline \in {"pdf", "docx"}
    /\ inputPaths \in InputLists
    /\ IF pipeline = "pdf"
       THEN /\ passThrough \in PassThroughChoices
            /\ nativePageRanges \in PageRangesChoices
            /\ pdfa \in PdfAChoices
            /\ pdfua \in BOOLEAN
            /\ nativePdfFormats \in BOOLEAN
            /\ merge \in BOOLEAN
            /\ metadata \in MetadataChoices
       ELSE /\ passThrough = [Landscape |-> FALSE, ExportFormFields |-> TRUE,
                              SinglePageSheets |-> FALSE]
            /\ nativePageRanges = ""
            /\ pdfa = ""
            /\ pdfua = FALSE
            /\ nativePdfFormats = TRUE
            /\ merge = FALSE
            /\ metadata = {}
    /\ outputPaths = [k \in 1..Len(inputPaths) |-> ""]
    /\ convertOutputPaths = <<>>
    /\ i = 1
    /\ pc = pipeline
    /\ err = NoError
    /\ calls = <<>>
    /\ files = [p \in Range(inputPaths) |-> Content(<<p>>, 0, {})]
    /\ generated = 0
    /\ sent = <<>>

\* Mutant: the error is recorded and the handler goes on.
ReturnAndGoOn(e) ==
    /\ err' = e
    /\ pc' = pc

\* return e
Return(e) ==
    /\ err' = e
    /\ pc' = "done"

\* The options libreOffice.Pdf is given.
Options ==
    [Landscape |-> passThrough.Landscape,
     PageRanges |-> nativePageRanges,
     ExportFormFields |-> passThrough.ExportFormFields,
     SinglePageSheets |-> passThrough.SinglePageSheets,
     PdfFormats |-> IF nativePdfFormats THEN pdfFormats ELSE zeroValued]

\* Mutant: ErrMalformedPageRanges is not told from the other errors.
PdfErrorNoPageRanges(res, options) ==
    IF res = "ErrInvalidPdfFormats"
    THEN WrapError("convert to PDF", res, StatusBadRequest,
                   InvalidPdfFormatsMessage(pdfFormats))
    ELSE PlainError("convert to PDF", res)

\* Mutant: the message quotes the PDF formats of the options.
PdfErrorOptionsFormats(res, options) ==
    IF res = "ErrInvalidPdfFormats"
    THEN WrapError("convert to PDF", res, StatusBadRequest,
                   InvalidPdfFormatsMessage(options.PdfFormats))
    ELSE IF res = "ErrMalformedPageRanges"
    THEN WrapError("convert to PDF", res, StatusBadRequest,
                   MalformedPageRangesMessage(options.PageRanges))
    ELSE PlainError("convert to PDF", res)

\* The error convertRoute returns when libreOffice.Pdf fails with res.
PdfError(res, options) ==
    IF res = "ErrInvalidPdfFormats"
    THEN WrapError("convert to PDF", res, StatusBadRequest,
                   InvalidPdfFormatsMessage(pdfFormats))
    ELSE IF res = "ErrMalformedPageRanges"
    THEN WrapError("convert to PDF", res, StatusBadRequest,
                   MalformedPageRangesMessage(options.PageRanges))
    ELSE PlainError("convert to PDF", res)

\* One iteration of the loop converting each document to PDF.
Pdf ==
    /\ pipeline = "pdf"
    /\ pc = "pdf"
    /\ \E res \in PdfResults :
        LET path == GeneratePath(generated + 1, ".pdf")
            out == [outputPaths EXCEPT ![i] = path]
            options == Options
        IN  /\ generated' = generated + 1
            /\ outputPaths' = out
            /\ calls' = Append(calls, Call("Pdf", <<inputPaths[i]>>, path,
                                           options.PdfFormats, res))
            /\ IF HasFailed(res)
               THEN /\ Return(PdfError(res, options))
                    /\ UNCHANGED <<i, files>>
               ELSE /\ files' = files @@ (path :>
                          Content(<<inputPaths[i]>>,
                                  IF options.PdfFormats # zeroValued THEN 1 ELSE 0,
                                  {}))
                    /\ err' = err
                    /\ IF MoreToDo(i, inputPaths)
                       THEN /\ i' = i + 1
                            /\ pc' = pc
                       ELSE /\ i' = 1
                            /\ pc' = Following("pdf", out)
    /\ UNCHANGED <<form, convertOutputPaths, sent>>

\* Mutant: the first of the merged PDFs is kept as the output.
CollapseKeepFirst(paths, outputPath) == <<paths[1]>>

\* Mutant: the merged PDF is added to the output paths.
CollapseAppend(paths, outputPath) == Append(paths, outputPath)

\* outputPaths = []string{outputPath}
Collapse(paths, outputPath) == <<outputPath>>

RECURSIVE Flatten(_)
Flatten(ss) == IF ss = <<>> THEN <<>> ELSE Head(ss) \o Flatten(Tail(ss))

\* The merge of the PDFs.
Merge ==
    /\ pipeline = "pdf"
    /\ pc = "merge"
    /\ \E res \in CallResults :
        LET outputPath == GeneratePath(generated + 1, ".pdf")
        IN  /\ generated' = generated + 1
            /\ calls' = Append(calls, Call("Merge", outputPaths, outputPath,
                                           zeroValued, res))
            /\ IF HasFailed(res)
               THEN /\ Return(PlainError("merge PDFs", res))
                    /\ UNCHANGED <<outputPaths, files>>
               ELSE /\ files' = files @@ (outputPath :>
                          Content(Flatten([k \in DOMAIN outputPaths |->
                                              files[outputPaths[k]].src]),
                                  files[outputPaths[1]].formats, {}))
                    /\ outputPaths' = Collapse(outputPaths, outputPath)
                    /\ err' = err
                    /\ pc' = Following("merge", Collapse(outputPaths, outputPath))
    /\ UNCHANGED <<form, convertOutputPaths, i, sent>>

\* One iteration of the loop converting each PDF to the PDF formats.
Convert ==
    /\ pipeline = "pdf"
    /\ pc = "convert"
    /\ \E res \in CallResults :
        LET base == IF i = 1
                    THEN [k \in 1..Len(outputPaths) |-> ""]
                    ELSE convertOutputPaths
            convertInputPath == outputPaths[i]
            path == GeneratePath(generated + 1, ".pdf")
            out == [base EXCEPT ![i] = path]
        IN  /\ generated' = generated + 1
            /\ convertOutputPaths' = out
            /\ calls' = Append(calls, Call("Convert", <<convertInputPath>>, path,
                                           pdfFormats, res))
            /\ IF HasFailed(res)
               THEN /\ Return(PlainError("convert PDF", res))
                    /\ UNCHANGED <<outputPaths, i, files>>
               ELSE /\ files' = files @@ (path :>
                          [files[convertInputPath] EXCEPT !.formats = @ + 1])
                    /\ err' = err
                    /\ IF MoreToDo(i, outputPaths)
                       THEN /\ i' = i + 1
                            /\ pc' = pc
                            /\ outputPaths' = outputPaths
                       ELSE /\ i' = 1
                            /\ outputPaths' = out
                            /\ pc' = Following("convert", out)
    /\ UNCHANGED <<form, sent>>

\* One iteration of the loop writing the metadata.
WriteMetadata ==
    /\ pipeline = "pdf"
    /\ pc = "metadata"
    /\ \E res \in CallResults :
        LET outputPath == outputPaths[i]
        IN  /\ calls' = Append(calls, Call("WriteMetadata", <<outputPath>>,
                                           outputPath, zeroValued, res))
            /\ IF HasFailed(res)
               THEN /\ Return(PlainError("write metadata", res))
                    /\ UNCHANGED <<i, files>>
               ELSE /\ files' = [files EXCEPT ![outputPath].meta = @ \cup metadata]
                    /\ err' = err
                    /\ IF MoreToDo(i, outputPaths)
                       THEN /\ i' = i + 1
                            /\ pc' = pc
                       ELSE /\ i' = 1
                            /\ pc' = Following("metadata", outputPaths)
    /\ UNCHANGED <<form, outputPaths, convertOutputPaths, generated, sent>>

\* os.Rename: the file at old is moved to new, replacing what was there.
Moved(fs, old, new) ==
    [p \in (DOMAIN fs \ {old}) \cup {new} |-> IF p = new THEN fs[old] ELSE fs[p]]

\* Mutant: a file that cannot be renamed is skipped and keeps its path.
RenameStepSkipFailed(suffix, next) ==
    \E res \in CallResults :
        LET inputPath == inputPaths[i]
            outputPath == OutputName(inputPath, suffix)
        IN  IF i > Len(outputPaths)
            THEN /\ Return(PlainError("panic", "index out of range"))
                 /\ UNCHANGED <<outputPaths, i, calls, files>>
            ELSE /\ calls' = Append(calls, Call("Rename", <<outputPaths[i]>>,
                                                outputPath, zeroValued, res))
                 /\ files' = IF HasFailed(res) THEN files
                             ELSE Moved(files, outputPaths[i], outputPath)
                 /\ outputPaths' = IF HasFailed(res) THEN outputPaths
                                   ELSE [outputPaths EXCEPT ![i] = outputPath]
                 /\ err' = err
                 /\ IF MoreToDo(i, inputPaths)
                    THEN /\ i' = i + 1
                         /\ pc' = pc
                    ELSE /\ i' = 1
                         /\ pc' = next

\* One iteration of a renaming loop: document.docx -> document.docx<suffix>.
\* outputPaths[i] with i beyond the slice is a run-time panic.
RenameStep(suffix, next) ==
    \E res \in CallResults :
        LET inputPath == inputPaths[i]
            outputPath == OutputName(inputPath, suffix)
        IN  IF i > Len(outputPaths)
            THEN /\ Return(PlainError("panic", "index out of range"))
                 /\ UNCHANGED <<outputPaths, i, calls, files>>
            ELSE /\ calls' = Append(calls, Call("Rename", <<outputPaths[i]>>,
                                                outputPath, zeroValued, res))
                 /\ IF HasFailed(res)
                    THEN /\ Return(PlainError("rename output path", res))
                         /\ UNCHANGED <<outputPaths, i, files>>
                    ELSE /\ files' = Moved(files, outputPaths[i], outputPath)
                         /\ outputPaths' = [outputPaths EXCEPT ![i] = outputPath]
                         /\ err' = err
                         /\ IF MoreToDo(i, inputPaths)
                            THEN /\ i' = i + 1
                                 /\ pc' = pc
                            ELSE /\ i' = 1
                                 /\ pc' = next

Rename ==
    /\ pipeline = "pdf"
    /\ pc = "rename"
    /\ RenameStep(".pdf", "add")
    /\ UNCHANGED <<form, convertOutputPaths, generated, sent>>

\* ctx.AddOutputPaths(outputPaths...) and the handler's return.
AddStep ==
    \E res \in CallResults :
        /\ calls' = Append(calls, Call("AddOutputPaths", outputPaths, "",
                                       zeroValued, res))
        /\ IF HasFailed(res)
           THEN /\ Return(PlainError("add output paths", res))
                /\ sent' = sent
           ELSE /\ sent' = sent \o outputPaths
                /\ Return(NoError)

AddOutputPaths ==
    /\ pipeline = "pdf"
    /\ pc = "add"
    /\ AddStep
    /\ UNCHANGED <<form, outputPaths, convertOutputPaths, i, files, generated>>

----------------------------------------------------------------------------
\* convertRouteDocx

\* Mutant: the typed errors are told apart as in convertRoute.
DocxErrorTyped(res) ==
    IF res \in {"ErrInvalidPdfFormats", "ErrMalformedPageRanges"}
    THEN WrapError("convert to DOCX", res, StatusBadRequest, res)
    ELSE PlainError("convert to DOCX", res)

\* The error convertRouteDocx returns when libreOffice.Docx fails with res.
DocxError(res) ==
    WrapError("convert to DOCX", res, StatusInternalServerError, "Error")

\* One iteration of the loop converting each document to DOCX.
Docx ==
    /\ pipeline = "docx"
    /\ pc = "docx"
    /\ \E res \in DocxResults :
        LET path == GeneratePath(generated + 1, ".docx")
            out == [outputPaths EXCEPT ![i] = path]
        IN  /\ generated' = generated + 1
            /\ outputPaths' = out
            /\ calls' = Append(calls, Call("Docx", <<inputPaths[i]>>, path,
                                           zeroValued, res))
            /\ IF HasFailed(res)
               THEN /\ Return(DocxError(res))
                    /\ UNCHANGED <<i, files>>
               ELSE /\ files' = files @@ (path :> Content(<<inputPaths[i]>>, 0, {}))
                    /\ err' = err
                    /\ IF MoreToDo(i, inputPaths)
                       THEN /\ i' = i + 1
                            /\ pc' = pc
                       ELSE /\ i' = 1
                            /\ pc' = IF RenameCond(out) THEN "renameDocx"
                                                        ELSE "addDocx"
    /\ UNCHANGED <<form, convertOutputPaths, sent>>

\* Mutant: the suffix of convertRoute is used.
RenameDocxPdfSuffix ==
    /\ pipeline = "docx"
    /\ pc = "renameDocx"
    /\ RenameStep(".pdf", "addDocx")
    /\ UNCHANGED <<form, convertOutputPaths, generated, sent>>

RenameDocx ==
    /\ pipeline = "docx"
    /\ pc = "renameDocx"
    /\ RenameStep(".docx", "addDocx")
    /\ UNCHANGED <<form, convertOutputPaths, generated, sent>>

AddOutputPathsDocx ==
    /\ pipeline = "docx"
    /\ pc = "addDocx"
    /\ AddStep
    /\ UNCHANGED <<form, outputPaths, convertOutputPaths, i, files, generated>>

----------------------------------------------------------------------------
Next ==
    \/ Pdf
    \/ Merge
    \/ Convert
    \/ WriteMetadata
    \/ Rename
    \/ AddOutputPaths
    \/ Docx
    \/ RenameDocx
    \/ AddOutputPathsDocx

Spec == Init /\ [][Next]_vars
----------------------------------------------------------------------------
\* Reading the history

IsPdf == pipeline = "pdf"

Done == pc = "done"

Succeeded == Done /\ err = NoError

Failed == Done /\ err # NoError

N == Len(inputPaths)

\* The positions in calls of the calls of op.
At(op) == {k \in DOMAIN calls : calls[k].op = op}

\* The calls of op, in the order they were issued.
CallsOf(op) == SelectSeq(calls, LAMBDA c : c.op = op)

Outs(cs) == [k \in DOMAIN cs |-> cs[k].out]

Ins(cs) == [k \in DOMAIN cs |-> cs[k].in[1]]

IsOk(c) == c.res = "nil"

\* The output set the merge stage leaves: the merged PDF if the merge ran,
\* the converted documents otherwise.
PostMerge ==
    IF At("Merge") # {} THEN Outs(CallsOf("Merge")) ELSE Outs(CallsOf("Pdf"))

\* The output set the PDF format conversion leaves.
PostConvert ==
    IF At("Convert") # {} THEN Outs(CallsOf("Convert")) ELSE PostMerge

\* The files a per-file stage of convertRoute works through, in order.
StageFiles(op) ==
    CASE op = "Pdf" -> inputPaths
      [] op = "Convert" -> PostMerge
      [] op = "WriteMetadata" -> PostConvert
      [] op = "Rename" -> PostConvert

Rank(op) ==
    CASE op = "Pdf" -> 1
      [] op = "Merge" -> 2
      [] op = "Convert" -> 3
      [] op = "WriteMetadata" -> 4
      [] op = "Rename" -> 5
      [] op = "AddOutputPaths" -> 6
      [] OTHER -> 0

PdfOps == {"Pdf", "Merge", "Convert", "WriteMetadata", "Rename", "AddOutputPaths"}

\* The number of calls a stage issues when it runs to its end.
StageSize(op) ==
    CASE op = "Pdf" -> N
      [] op = "Merge" -> 1
      [] op = "Convert" -> IF At("Merge") # {} THEN 1 ELSE N
      [] op = "WriteMetadata" -> IF At("Merge") # {} THEN 1 ELSE N
      [] op = "Rename" -> N
      [] op = "AddOutputPaths" -> 1

\* The successful calls of op issued before the b-th call.
OkBefore(op, b) == {a \in 1..(b - 1) : calls[a].op = op /\ IsOk(calls[a])}

----------------------------------------------------------------------------
\* C1: a PDF run that completes without failure hands exactly one output
\* path to AddOutputPaths when merge is set and there are at least two
\* inputs, and exactly one per input otherwise, whatever nativePdfFormats,
\* the PDF formats and the metadata are.
C1_OutputCount ==
    (IsPdf /\ Succeeded) =>
        LET expected == IF merge /\ N >= 2 THEN 1 ELSE N
        IN  /\ Cardinality(At("AddOutputPaths")) = 1
            /\ Len(calls[Len(calls)].in) = expected
            /\ Len(sent) = expected

C1_Witness ==
    /\ IsPdf /\ Succeeded
    /\ merge /\ N = 3 /\ Len(sent) = 1
    /\ ~nativePdfFormats /\ pdfFormats # zeroValued /\ metadata # {}

\* C2: the calls of a PDF run are ordered by stage (Pdf, Merge, Convert,
\* WriteMetadata, Rename, AddOutputPaths), and no call of a later stage is
\* issued before every file of each earlier stage that runs has been
\* processed successfully.
C2_StageBarrier ==
    IsPdf =>
        /\ \A a, b \in DOMAIN calls :
              a < b => Rank(calls[a].op) <= Rank(calls[b].op)
        /\ \A b \in DOMAIN calls : \A op \in PdfOps :
              (/\ Rank(op) < Rank(calls[b].op)
               /\ (op = "Pdf" \/ At(op) # {}))
              => Cardinality(OkBefore(op, b)) = StageSize(op)

C2_Witness ==
    /\ IsPdf /\ Succeeded /\ N = 3
    /\ At("Merge") # {} /\ At("Convert") # {} /\ At("WriteMetadata") # {}

\* C3: in a PDF run with non-zero PDF formats no file goes through the PDF
\* format conversion twice: libreOffice.Pdf is given the formats only when
\* nativePdfFormats is on, engine.Convert is called only when it is off, and
\* in a run that completes without failure either every Pdf call carried the
\* formats and Convert was never called, or no Pdf call carried them and
\* Convert was called on every file of the post-merge output set.
C3_NormalizeOnce ==
    (IsPdf /\ pdfFormats # zeroValued) =>
        /\ \A p \in DOMAIN files : files[p].formats <= 1
        /\ \A k \in At("Pdf") :
              calls[k].formats = IF nativePdfFormats THEN pdfFormats ELSE zeroValued
        /\ At("Convert") # {} => ~nativePdfFormats
        /\ Succeeded =>
              LET native == /\ \A k \in At("Pdf") : calls[k].formats = pdfFormats
                            /\ At("Convert") = {}
                  after == /\ \A k \in At("Pdf") : calls[k].formats = zeroValued
                           /\ Ins(CallsOf("Convert")) = PostMerge
                           /\ \A k \in At("Convert") : calls[k].formats = pdfFormats
              IN  /\ native \/ after
                  /\ ~(native /\ after)
                  /\ \A k \in DOMAIN sent : files[sent[k]].formats = 1

C3_Witness ==
    /\ IsPdf /\ Succeeded /\ pdfFormats # zeroValued
    /\ ~nativePdfFormats /\ N = 3 /\ ~merge
    /\ Cardinality(At("Convert")) = 3

\* C4: with exactly one input engine.Merge is never called, whatever the
\* merge flag; Merge is called only with the merge flag set and on at least
\* two converted outputs, and at most once.
C4_MergeGuard ==
    IsPdf =>
        /\ N = 1 => At("Merge") = {}
        /\ \A k \in At("Merge") :
              /\ merge
              /\ Len(calls[k].in) >= 2
              /\ calls[k].in = Outs(CallsOf("Pdf"))
        /\ Cardinality(At("Merge")) <= 1

C4_Witness ==
    /\ IsPdf /\ Succeeded /\ N = 1 /\ merge /\ At("Merge") = {}

\* C5: in a PDF run with non-empty metadata no Pdf, Merge or Convert call is
\* issued after the first WriteMetadata call, and no file that carries
\* metadata is the input of a PDF format conversion.
C5_MetadataAfterConvert ==
    (IsPdf /\ metadata # {}) =>
        /\ \A a, b \in DOMAIN calls :
              (a < b /\ calls[a].op = "WriteMetadata")
              => calls[b].op \notin {"Pdf", "Merge", "Convert"}
        /\ \A p \in DOMAIN files :
              (files[p].meta # {} /\ files[p].formats > 0)
              => \A k \in At("Convert") : calls[k].in[1] # p

C5_Witness ==
    /\ IsPdf /\ Succeeded /\ metadata # {} /\ N = 2 /\ ~merge
    /\ At("Convert") # {}
    /\ \A k \in DOMAIN sent : files[sent[k]].meta = metadata

\* C6: once a Pdf, Merge, Convert or WriteMetadata call has failed the PDF
\* run is over with an error: the failed call is the last call issued, and
\* AddOutputPaths is never called.
C6_FailureAborts ==
    IsPdf =>
        \A a \in DOMAIN calls :
            (calls[a].op \in {"Pdf", "Merge", "Convert", "WriteMetadata"}
             /\ ~IsOk(calls[a]))
            => /\ a = Len(calls)
               /\ Failed
               /\ At("AddOutputPaths") = {}
               /\ sent = <<>>

C6_Witness ==
    /\ IsPdf /\ Failed /\ N = 3
    /\ calls[Len(calls)].op = "WriteMetadata"
    /\ Cardinality(At("WriteMetadata")) = 2

\* C7: each per-file loop of the PDF run (Pdf, Convert, WriteMetadata) works
\* through its files in order, and a failure on the k-th file leaves the
\* files after it untouched by the stage; a Pdf failure on the second of
\* three inputs ends the run with two Pdf calls and nothing handed off.
C7_LoopOrder ==
    IsPdf =>
        /\ \A op \in {"Pdf", "Convert", "WriteMetadata"} :
              LET cs == CallsOf(op)
              IN  /\ Len(cs) <= Len(StageFiles(op))
                  /\ \A k \in DOMAIN cs :
                        /\ cs[k].in = <<StageFiles(op)[k]>>
                        /\ ~IsOk(cs[k]) => (k = Len(cs) /\ Failed)
        /\ (N = 3 /\ Len(CallsOf("Pdf")) >= 2 /\ ~IsOk(CallsOf("Pdf")[2]))
           => (Len(calls) = 2 /\ Failed /\ sent = <<>>)

C7_Witness ==
    /\ IsPdf /\ N = 3
    /\ Len(CallsOf("Pdf")) = 2 /\ ~IsOk(CallsOf("Pdf")[2])
    /\ Failed

\* The class the API gives an error: the sentinel's status when there is one
\* and it is a bad request, an internal server error otherwise.
Class(e) == IF e.status = StatusBadRequest THEN "client" ELSE "internal"

\* C8: a PDF run ends with a bad-request error exactly when a Pdf call
\* failed with ErrInvalidPdfFormats or ErrMalformedPageRanges; every other
\* failure, a failed engine.Convert with nativePdfFormats off included, ends
\* it with an internal error.
C8_ErrorClass ==
    (IsPdf /\ Failed) =>
        LET last == calls[Len(calls)]
        IN  /\ ~IsOk(last)
            /\ Class(err) = "client" <=>
                  (/\ last.op = "Pdf"
                   /\ last.res \in {"ErrInvalidPdfFormats", "ErrMalformedPageRanges"})
            /\ Class(err) = "internal" <=>
                  (\/ last.op # "Pdf"
                   \/ last.res = "other")

C8_Witness ==
    /\ IsPdf /\ Failed
    /\ ~nativePdfFormats /\ pdfFormats # zeroValued
    /\ calls[Len(calls)].op = "Convert"
    /\ Class(err) = "internal"

\* C9: the bad-request error quotes the request's own value: the literal
\* nativePageRanges when the Pdf call failed with ErrMalformedPageRanges,
\* the request's pdfa and pdfua when it failed with ErrInvalidPdfFormats.
C9_ErrorEcho ==
    (IsPdf /\ Failed /\ calls[Len(calls)].op = "Pdf") =>
        LET last == calls[Len(calls)]
        IN  /\ last.res = "ErrMalformedPageRanges" =>
                  err.message =
                      "Malformed page ranges '" \o nativePageRanges
                          \o "' (nativePageRanges)"
            /\ last.res = "ErrInvalidPdfFormats" =>
                  err.message =
                      "A PDF format in '{PdfA:" \o pdfa \o " PdfUa:"
                          \o (IF pdfua THEN "true" ELSE "false")
                          \o "}' is not supported"

C9_Witness ==
    /\ IsPdf /\ Failed /\ N = 3
    /\ Len(calls) = 3
    /\ calls[3].res = "ErrMalformedPageRanges"
    /\ nativePageRanges = "1-x"
    /\ err.message = "Malformed page ranges '1-x' (nativePageRanges)"

\* C10: a successful PDF run that hands off more than one output hands off
\* one per input, in input order, the k-th named as the k-th input followed
\* by ".pdf"; the file renamed to that name is the k-th file of the output
\* set the last stage left, converted to the PDF formats and carrying the
\* metadata when those were requested, and the names are distinct.
C10_OutputNames ==
    (IsPdf /\ Succeeded /\ Len(sent) > 1) =>
        /\ Len(sent) = N
        /\ \A k \in 1..N :
              /\ sent[k] = inputPaths[k] \o ".pdf"
              /\ CallsOf("Rename")[k].in = <<PostConvert[k]>>
              /\ CallsOf("Rename")[k].out = sent[k]
              /\ files[sent[k]] =
                    Content(<<inputPaths[k]>>,
                            IF pdfFormats # zeroValued THEN 1 ELSE 0,
                            metadata)
        /\ Len(CallsOf("Rename")) = N
        /\ IsInjective(sent)
        /\ (inputPaths = <<"a.docx", "b.xlsx">>)
           => (sent = <<"a.docx.pdf", "b.xlsx.pdf">>)

C10_Witness ==
    /\ IsPdf /\ Succeeded
    /\ inputPaths = <<"a.docx", "b.xlsx">>
    /\ sent = <<"a.docx.pdf", "b.xlsx.pdf">>
    /\ ~nativePdfFormats /\ pdfFormats # zeroValued /\ metadata # {}

\* The paths ctx.GeneratePath has issued so far.
Allocated(ext) == {GeneratePath(n, ext) : n \in 1..generated}

\* C11: a successful PDF run that ends with one output (one input, or
\* several inputs merged) never calls ctx.Rename, and hands off the path
\* ctx.GeneratePath issued for the last call that produced the file; no name
\* made from an input is given to it.
C11_SingleKeepsPath ==
    (IsPdf /\ Succeeded /\ Len(sent) = 1) =>
        /\ N = 1 \/ (merge /\ At("Merge") # {})
        /\ At("Rename") = {}
        /\ sent[1] = PostConvert[1]
        /\ sent[1] = GeneratePath(generated, ".pdf")
        /\ sent[1] \in Allocated(".pdf")
        /\ \A k \in 1..N : sent[1] # inputPaths[k] \o ".pdf"

C11_Witness ==
    /\ IsPdf /\ Succeeded /\ N = 1 /\ merge
    /\ pdfFormats = zeroValued /\ metadata = {}
    /\ sent = <<"out1.pdf">>

IsRenamePc == pc \in {"rename", "renameDocx"}

\* C12: in both handlers ctx.Rename is called only after every call the
\* request needs (each document converted, each PDF converted to the PDF
\* formats and given the metadata when those are requested) has succeeded;
\* when the k-th Rename fails it is the last call, the run fails and no
\* output path is handed off.
C12_RenameLast ==
    \A b \in At("Rename") :
        /\ \A a \in 1..(b - 1) : IsOk(calls[a])
        /\ At("Merge") = {}
        /\ IF IsPdf
           THEN /\ Cardinality(OkBefore("Pdf", b)) = N
                /\ ConvertCond => Cardinality(OkBefore("Convert", b)) = N
                /\ MetadataCond => Cardinality(OkBefore("WriteMetadata", b)) = N
           ELSE Cardinality(OkBefore("Docx", b)) = N
        /\ ~IsOk(calls[b]) =>
              /\ b = Len(calls)
              /\ Failed
              /\ At("AddOutputPaths") = {}
              /\ sent = <<>>

C12_Witness ==
    /\ IsPdf /\ Failed /\ N = 3
    /\ ConvertCond /\ MetadataCond
    /\ Len(CallsOf("Rename")) = 2
    /\ ~IsOk(CallsOf("Rename")[2])
    /\ sent = <<>>

\* C13: when the merge runs on N >= 2 inputs engine.Merge is called exactly
\* once, with the N outputs of libreOffice.Pdf in input order and a path
\* ctx.GeneratePath has just issued; after its success the output paths are
\* the merged PDF alone, and no PDF from before the merge is handed off.
C13_MergeOnce ==
    IsPdf =>
        /\ Cardinality(At("Merge")) <= 1
        /\ (merge /\ N >= 2 /\ Len(calls) > N) => Cardinality(At("Merge")) = 1
        /\ \A b \in At("Merge") :
              /\ N >= 2 /\ b = N + 1
              /\ Len(calls[b].in) = N
              /\ \A j \in 1..N :
                    /\ calls[j].op = "Pdf"
                    /\ calls[j].in = <<inputPaths[j]>>
                    /\ calls[b].in[j] = calls[j].out
              /\ calls[b].out = GeneratePath(N + 1, ".pdf")
              /\ \A a \in 1..(b - 1) : calls[a].out # calls[b].out
              /\ calls[b].out \notin Range(calls[b].in)
              /\ IsOk(calls[b]) =>
                    /\ outputPaths \in {<<calls[b].out>>, PostConvert}
                    /\ Len(outputPaths) = 1
                    /\ files[calls[b].out].src = inputPaths
                    /\ Succeeded =>
                          /\ Len(sent) = 1
                          /\ sent[1] \notin Range(calls[b].in)
                          /\ files[sent[1]].src = inputPaths

C13_Witness ==
    /\ IsPdf /\ Succeeded /\ N = 3
    /\ Cardinality(At("Merge")) = 1
    /\ calls[4].in = <<"out1.pdf", "out2.pdf", "out3.pdf">>
    /\ sent = <<"out4.pdf">>

IsDocx == pipeline = "docx"

\* C14: a successful DOCX run calls libreOffice.Docx once per input, in
\* input order, calls neither Merge nor Convert nor WriteMetadata, and hands
\* off one output per input in input order: with one input the path as
\* issued and no Rename, with several the k-th named as the k-th input
\* followed by ".docx".
C14_DocxRun ==
    IsDocx =>
        /\ At("Pdf") = {} /\ At("Merge") = {}
        /\ At("Convert") = {} /\ At("WriteMetadata") = {}
        /\ Succeeded =>
              LET docx == CallsOf("Docx")
              IN  /\ Len(docx) = N
                  /\ \A k \in 1..N :
                        /\ calls[k] = docx[k]
                        /\ docx[k].in = <<inputPaths[k]>>
                        /\ docx[k].out = GeneratePath(k, ".docx")
                        /\ IsOk(docx[k])
                  /\ Len(sent) = N
                  /\ \A k \in 1..N : files[sent[k]].src = <<inputPaths[k]>>
                  /\ N = 1 => (At("Rename") = {} /\ sent = Outs(docx))
                  /\ N > 1 =>
                        /\ Len(CallsOf("Rename")) = N
                        /\ \A k \in 1..N :
                              /\ sent[k] = inputPaths[k] \o ".docx"
                              /\ CallsOf("Rename")[k].in = <<docx[k].out>>
                              /\ CallsOf("Rename")[k].out = sent[k]

C14_Witness ==
    /\ IsDocx /\ Succeeded
    /\ inputPaths = <<"d.hwp", "a.docx", "c.odt">>
    /\ sent = <<"d.hwp.docx", "a.docx.docx", "c.odt.docx">>

\* C15: in the DOCX run a failure of libreOffice.Docx on the k-th file,
\* whatever the error, ends the run with the same internal server error
\* ("Error"), never a bad request, with no Docx call on the files after it,
\* no Rename and nothing handed off.
C15_DocxFailure ==
    IsDocx =>
        \A a \in At("Docx") :
            /\ calls[a].in = <<inputPaths[a]>>
            /\ ~IsOk(calls[a]) =>
                  /\ a = Len(calls)
                  /\ Failed
                  /\ err.status = StatusInternalServerError
                  /\ err.message = "Error"
                  /\ Class(err) = "internal"
                  /\ At("Rename") = {}
                  /\ At("AddOutputPaths") = {}
                  /\ sent = <<>>

C15_Witness ==
    /\ IsDocx /\ Failed /\ N = 3
    /\ Len(calls) = 2
    /\ calls[2].op = "Docx"
    /\ calls[2].res = "ErrMalformedPageRanges"
    /\ err.message = "Error"

\* The text convertRoute puts in front of the error of a stage.
StagePrefix(op) ==
    CASE op = "Pdf" -> "convert to PDF"
      [] op = "Merge" -> "merge PDFs"
      [] op = "Convert" -> "convert PDF"
      [] op = "WriteMetadata" -> "write metadata"

StageOps == {"Pdf", "Merge", "Convert", "WriteMetadata"}

\* The files a call works on.
FilesOf(c) == Range(c.in) \cup {c.out}

\* A PDF run has ended with an internal error of one of the four stages.
StageFailure ==
    /\ IsPdf /\ Failed
    /\ calls[Len(calls)].op \in StageOps
    /\ Class(err) = "internal"

\* C16 as stated: the error of a failed Pdf, Merge, Convert or WriteMetadata
\* call that is not a bad request names the stage, the file the call failed
\* on, and the cause.
C16_Original ==
    StageFailure =>
        LET last == calls[Len(calls)]
        IN  /\ err.parts[1] = StagePrefix(last.op)
            /\ last.res \in Range(err.parts)
            /\ Range(err.parts) \cap FilesOf(last) # {}

\* C16, amended: the error of a failed Pdf, Merge, Convert or WriteMetadata
\* call that is not a bad request is the cause with the text of the stage in
\* front of it, a text that differs from stage to stage; the handler puts no
\* file in it.
C16_StageAndCause ==
    /\ \A a, b \in StageOps : StagePrefix(a) = StagePrefix(b) => a = b
    /\ StageFailure =>
          LET last == calls[Len(calls)]
          IN  /\ err.parts = <<StagePrefix(last.op), last.res>>
              /\ err.text = StagePrefix(last.op) \o ": " \o last.res
              /\ Range(err.parts) \cap FilesOf(last) = {}

C16_Witness ==
    /\ StageFailure /\ N = 3
    /\ Len(CallsOf("Convert")) = 2
    /\ err.text = "convert PDF: other"

\* C17: a successful PDF run calls engine.Convert exactly when
\* nativePdfFormats is off and the PDF formats are not the zero value; it
\* then calls it once per file of the post-merge output set, in order, with
\* the request's PDF formats and a path ctx.GeneratePath has just issued,
\* and the converted files, in the same number and order, are the output
\* set from then on.  With zero-valued PDF formats Convert is never called.
C17_ConvertStage ==
    IsPdf =>
        /\ pdfFormats = zeroValued => At("Convert") = {}
        /\ \A b \in At("Convert") :
              /\ calls[b].formats = pdfFormats
              /\ calls[b].out = GeneratePath(b, ".pdf")
              /\ \A a \in 1..(b - 1) : calls[a].out # calls[b].out
        /\ Succeeded =>
              LET cv == CallsOf("Convert")
              IN  /\ (cv # <<>>) <=> (~nativePdfFormats /\ pdfFormats # zeroValued)
                  /\ cv # <<>> =>
                        /\ Len(cv) = IF At("Merge") # {} THEN 1 ELSE N
                        /\ Ins(cv) = PostMerge
                        /\ \A k \in DOMAIN cv : IsOk(cv[k])
                        /\ convertOutputPaths = Outs(cv)
                        /\ IF Len(cv) = 1
                           THEN sent = Outs(cv)
                           ELSE Ins(CallsOf("Rename")) = Outs(cv)

C17_Witness ==
    /\ IsPdf /\ Succeeded /\ N = 3 /\ merge
    /\ ~nativePdfFormats /\ pdfFormats = [PdfA |-> "", PdfUa |-> TRUE]
    /\ Len(CallsOf("Convert")) = 1
    /\ sent = <<"out5.pdf">>

\* C18: a successful PDF run calls engine.WriteMetadata exactly when the
\* metadata are not empty; it then calls it once on each file of the output
\* set the earlier stages left, the stage changes neither the number nor
\* the order of the output paths, and every file handed off carries the
\* metadata.
C18_MetadataStage ==
    IsPdf =>
        /\ metadata = {} => At("WriteMetadata") = {}
        /\ \A b \in At("WriteMetadata") : calls[b].in = <<calls[b].out>>
        /\ Succeeded =>
              LET wm == CallsOf("WriteMetadata")
              IN  /\ (wm # <<>>) <=> (metadata # {})
                  /\ wm # <<>> =>
                        /\ Ins(wm) = PostConvert
                        /\ \A k \in DOMAIN wm : IsOk(wm[k])
                  /\ Len(sent) = Len(PostConvert)
                  /\ IF Len(sent) = 1
                     THEN sent = PostConvert
                     ELSE Ins(CallsOf("Rename")) = PostConvert
                  /\ \A k \in DOMAIN sent : files[sent[k]].meta = metadata

C18_Witness ==
    /\ IsPdf /\ Succeeded /\ N = 3 /\ ~merge
    /\ ConvertCond /\ metadata = {<<"Author", "Jane">>}
    /\ Len(CallsOf("WriteMetadata")) = 3
    /\ \A k \in DOMAIN sent : files[sent[k]].meta = metadata

\* C19: in both handlers, whenever the renaming loop runs the output paths
\* are as many as the input paths, so outputPaths[i] is within the slice and
\* goes with inputPaths[i]; the output paths are fewer than the input paths
\* only after a successful merge, and then there is one and the renaming
\* loop does not run.
C19_RenameInBounds ==
    /\ IsRenamePc =>
          /\ Len(outputPaths) = Len(inputPaths)
          /\ i \in 1..Len(outputPaths)
    /\ err.parts # <<"panic", "index out of range">>
    /\ \A k \in DOMAIN CallsOf("Rename") :
          /\ k <= N
          /\ CallsOf("Rename")[k].out =
                inputPaths[k] \o (IF IsPdf THEN ".pdf" ELSE ".docx")
          /\ files[LET c == CallsOf("Rename")[k]
                   IN  IF IsOk(c) THEN c.out ELSE c.in[1]].src = <<inputPaths[k]>>
    /\ Len(outputPaths) # Len(inputPaths) =>
          /\ IsPdf
          /\ \E b \in At("Merge") : IsOk(calls[b])
          /\ Len(outputPaths) = 1
          /\ ~IsRenamePc
          /\ At("Rename") = {}

C19_Witness ==
    /\ IsRenamePc /\ IsPdf /\ N = 3 /\ i = 3
    /\ Len(outputPaths) = 3
    /\ Len(CallsOf("Rename")) = 2
====
